---- MODULE Spec2Model ----
(***************************************************************************)
(* The manifest processing pipeline of emergence_lib:                      *)
(*   asset_management/manifest/raw.rs                                      *)
(* A raw (string keyed) manifest is deserialized from its file and then    *)
(* turned by process() into a Manifest keyed by Id<Marker>.  Items and     *)
(* recipes are the two categories; a recipe resolves the names of its      *)
(* inputs and outputs with Id::<Item>::from_name.                          *)
(*                                                                         *)
(* Id, Manifest, ItemData, ItemCount and RecipeData live in other files of *)
(* the crate; they are modelled from the written specification (sections   *)
(* 3 and 4), as the comment of each such definition says.                  *)
(***************************************************************************)
EXTENDS Integers, Sequences, FiniteSets, TLC

VARIABLES
    itemSource,     \* the entries of items.manifest.json, in file order
    rawItems,       \* RawItemManifest.items   (HashMap<String, RawItemData>)
    rawRecipes,     \* RawRecipeManifest.recipes (HashMap<String, RawRecipeData>)
    itemState,      \* "Unloaded" -> "RawParsed" -> "Processed"
    recipeState,    \* "RawParsed" -> "Processed"
    interner,       \* the per category name -> handle tables, and the ids handed out
    itemManifest,   \* Manifest<Item, ItemData>, the result of RawItemManifest::process
    recipeManifest  \* Manifest<Recipe, RecipeData>, the result of RawRecipeManifest::process

vars == <<itemSource, rawItems, rawRecipes, itemState, recipeState,
          interner, itemManifest, recipeManifest>>

----------------------------------------------------------------------------
(* Bounds of the model.                                                    *)

\* The names an author may use, for items, recipes and recipe ingredients.
Names == {"ore", "ingot"}

\* The longest item source file, in entries (duplicate names included).
MaxEntries == 2

\* stack_size ranges over 0..MaxStackSize.
MaxStackSize == 1

\* An input or output count ranges over 0..MaxCount.
MaxCount == 1

\* craft_time_ms values (below and above one second).
CraftTimesMs == {0, 1500}

----------------------------------------------------------------------------
(* Values.                                                                 *)

\* Option<T>: None is the empty set, Some(v) is {v}.
None == {}

Some(v) == {v}

\* Option::unwrap_or
UnwrapOr(opt, default) ==
    IF opt = None THEN default ELSE CHOOSE v \in opt : TRUE

\* An empty HashMap / an empty Manifest.
EmptyMap == [k \in {} |-> {}]

\* HashMap::insert: the value of an existing key is replaced.
Put(m, k, v) ==
    [x \in DOMAIN m \cup {k} |-> IF x = k THEN v ELSE m[x]]

PartialMaps(K, V) ==
    UNION {[D -> V] : D \in SUBSET K}

SeqsUpTo(S, n) ==
    UNION {[1..k -> S] : k \in 0..n}

\* The orders in which a HashMap with key set S may be iterated.
Perms(S) ==
    {s \in [1..Cardinality(S) -> S] : \A i, j \in DOMAIN s : i # j => s[i] # s[j]}

\* The iteration order of the keys in K, taken from an order of all names.
Restrict(order, K) ==
    SelectSeq(order, LAMBDA n : n \in K)

Categories == {"Item", "Recipe"}

\* Id<Category>: a handle with its category tag (specification, section 3).
MkId(category, handle) ==
    [category |-> category, handle |-> handle]

----------------------------------------------------------------------------
(* The identifier interner, Id::from_name.                                 *)

\* The interner at manifest-load start: no name seen in any category
\* (specification, section 3).
\* `issued` is a history of the load: every <<name, id>> such that the id
\* was handed to the pipeline as the identifier of the name.
EmptyInterner ==
    [name_to_handle |-> [c \in Categories |-> EmptyMap],
     next_handle    |-> [c \in Categories |-> 0],
     issued         |-> {}]

\* Id::<Category>::from_name(name) (specification, section 4.1): the handle
\* of a name seen before, a new handle for a first-seen name.  Answers the
\* id and the interner afterwards.
FromName(I, category, name) ==
    LET known == name \in DOMAIN I.name_to_handle[category]
        h == IF known THEN I.name_to_handle[category][name] ELSE I.next_handle[category]
    IN [interner |-> [I EXCEPT !.name_to_handle[category] = Put(@, name, h),
                               !.next_handle[category] = IF known THEN @ ELSE @ + 1],
        id |-> MkId(category, h)]

\* The history of the load, with one more identifier handed out.
Issued(I, name, id) ==
    [I EXCEPT !.issued = @ \cup {<<name, id>>}]

----------------------------------------------------------------------------
(* Manifest<Marker, Data>.                                                 *)

\* Manifest::new (specification, section 4.2)
ManifestNew == EmptyMap

\* Manifest::insert(name, data) (specification, section 4.2): stores data
\* under the id of name, replacing what was stored under it.
ManifestInsert(I, manifest, marker, name, data) ==
    LET r == FromName(I, marker, name)
    IN [interner |-> Issued(r.interner, name, r.id),
        manifest |-> Put(manifest, r.id, data)]

\* Manifest::get(id) (specification, section 4.2): Some(data), or None when
\* the id has no entry.
ManifestGet(manifest, id) ==
    IF id \in DOMAIN manifest THEN Some(manifest[id]) ELSE None

----------------------------------------------------------------------------
(* Items.                                                                  *)

\* ItemData::new (specification, section 3)
ItemDataNew(stack_size) ==
    [stack_size |-> stack_size]

\* A conversion that loses the stack size.
ItemDataFromZeroed(value) ==
    ItemDataNew(0)

\* impl From<&RawItemData> for ItemData
ItemDataFrom(value) ==
    ItemDataNew(value.stack_size)

\* A deserializer that keeps the first of two entries of one name.
DeserializeItemsFirstWins(source) ==
    [n \in {source[i].name : i \in DOMAIN source} |->
        LET first == CHOOSE i \in DOMAIN source :
                        /\ source[i].name = n
                        /\ \A j \in DOMAIN source : source[j].name = n => i <= j
        IN [stack_size |-> source[first].stack_size]]

RECURSIVE DeserializeItemsLoop(_, _)
DeserializeItemsLoop(source, items) ==
    IF source = <<>> THEN items
    ELSE DeserializeItemsLoop(Tail(source),
            Put(items, Head(source).name, [stack_size |-> Head(source).stack_size]))

\* #[derive(Deserialize)] of RawItemManifest: the entries of the file are
\* inserted into the HashMap `items` one after the other.
DeserializeItems(source) ==
    DeserializeItemsLoop(source, EmptyMap)

\* <RawItemManifest as RawManifest>::Marker
RawItemManifestMarker == "Item"

RECURSIVE ProcessItemsLoop(_, _, _, _)
\* The for loop of RawItemManifest::process, over `order`.
ProcessItemsLoop(I, manifest, items, order) ==
    IF order = <<>> THEN [interner |-> I, manifest |-> manifest]
    ELSE LET name == Head(order)
             data == ItemDataFrom(items[name])
             r == ManifestInsert(I, manifest, RawItemManifestMarker, name, data)
         IN ProcessItemsLoop(r.interner, r.manifest, items, Tail(order))

\* A process whose fresh manifest starts its own table of item names.
ProcessItemsResultsOwnTable(I, items) ==
    LET fresh == [I EXCEPT !.name_to_handle["Item"] = EmptyMap,
                           !.next_handle["Item"] = 0]
    IN {ProcessItemsLoop(fresh, ManifestNew, items, order) : order \in Perms(DOMAIN items)}

\* What RawItemManifest::process may return, and the interner it leaves:
\* one outcome per order in which the HashMap `items` may be iterated.
ProcessItemsResults(I, items) ==
    {ProcessItemsLoop(I, ManifestNew, items, order) : order \in Perms(DOMAIN items)}

----------------------------------------------------------------------------
(* Recipes.                                                                *)

\* ItemCount::new (specification, section 3)
ItemCountNew(item_id, count) ==
    [item_id |-> item_id, count |-> count]

\* RecipeData::new (specification, section 3)
RecipeDataNew(inputs, outputs, craft_time, work_required, energy) ==
    [inputs |-> inputs, outputs |-> outputs, craft_time |-> craft_time,
     work_required |-> work_required, energy |-> energy]

\* Duration::from_millis
DurationFromMillis(ms) ==
    [secs |-> ms \div 1000, nanos |-> (ms % 1000) * 1000000]

\* A resolution that interns the name among the recipes.
ItemIdFromNameInRecipeNamespace(I, name) ==
    LET r == FromName(I, "Recipe", name)
        id == MkId("Item", r.id.handle)
    IN [interner |-> Issued(r.interner, name, id), id |-> id]

\* Id::<Item>::from_name(name), as the recipe conversion calls it.
ItemIdFromName(I, name) ==
    LET r == FromName(I, "Item", name)
    IN [interner |-> Issued(r.interner, name, r.id), id |-> r.id]

\* An ItemCount that loses the count.
ResolveItemCountOne(id, count) ==
    ItemCountNew(id, 1)

\* |(name, count)| ItemCount::new(Id::<Item>::from_name(name), *count)
ResolveItemCount(id, count) ==
    ItemCountNew(id, count)

RECURSIVE CollectItemCounts(_, _, _, _)
\* map.iter().map(..).collect(), the map iterated in `order`.
CollectItemCounts(I, map, order, list) ==
    IF order = <<>> THEN [interner |-> I, list |-> list]
    ELSE LET name == Head(order)
             r == ItemIdFromName(I, name)
         IN CollectItemCounts(r.interner, map, Tail(order),
                Append(list, ResolveItemCount(r.id, map[name])))

\* A default of true for an absent work_required.
WorkRequiredDefaultTrue(value) ==
    UnwrapOr(value.work_required, TRUE)

\* value.work_required.unwrap_or(false)
WorkRequired(value) ==
    UnwrapOr(value.work_required, FALSE)

\* impl From<&RawRecipeData> for RecipeData
RecipeDataFrom(I, value, inOrder, outOrder) ==
    LET inputs == CollectItemCounts(I, value.inputs, inOrder, <<>>)
        outputs == CollectItemCounts(inputs.interner, value.outputs, outOrder, <<>>)
        craft_time == DurationFromMillis(value.craft_time_ms)
        work_required == WorkRequired(value)
    IN [interner |-> outputs.interner,
        data |-> RecipeDataNew(inputs.list, outputs.list, craft_time,
                               work_required, value.energy)]

\* A recipe manifest keyed by the item marker.
RawRecipeManifestMarkerItem == "Item"

\* <RawRecipeManifest as RawManifest>::Marker
RawRecipeManifestMarker == "Recipe"

RECURSIVE ProcessRecipesLoop(_, _, _, _, _)
\* The for loop of RawRecipeManifest::process, over `order`; iter[name] gives
\* the iteration orders of that recipe's inputs and outputs.
ProcessRecipesLoop(I, manifest, recipes, order, iter) ==
    IF order = <<>> THEN [interner |-> I, manifest |-> manifest]
    ELSE LET name == Head(order)
             raw == recipes[name]
             conv == RecipeDataFrom(I, raw,
                        Restrict(iter[name][1], DOMAIN raw.inputs),
                        Restrict(iter[name][2], DOMAIN raw.outputs))
             r == ManifestInsert(conv.interner, manifest, RawRecipeManifestMarker,
                                 name, conv.data)
         IN ProcessRecipesLoop(r.interner, r.manifest, recipes, Tail(order), iter)

\* A process that fails (returns nothing) on a recipe that names an item
\* no one has interned before.
ProcessRecipesResultsStrict(I, recipes) ==
    IF \A name \in DOMAIN recipes :
          DOMAIN recipes[name].inputs \cup DOMAIN recipes[name].outputs
              \subseteq DOMAIN I.name_to_handle["Item"]
    THEN {ProcessRecipesLoop(I, ManifestNew, recipes, order, iter) :
            order \in Perms(DOMAIN recipes),
            iter \in [DOMAIN recipes -> Perms(Names) \X Perms(Names)]}
    ELSE {}

\* What RawRecipeManifest::process may return, and the interner it leaves:
\* one outcome per order in which `recipes`, and the inputs and outputs of
\* each recipe, may be iterated.
ProcessRecipesResults(I, recipes) ==
    {ProcessRecipesLoop(I, ManifestNew, recipes, order, iter) :
        order \in Perms(DOMAIN recipes),
        iter \in [DOMAIN recipes -> Perms(Names) \X Perms(Names)]}

----------------------------------------------------------------------------
(* The inputs of a load.                                                   *)

StackSizes == 0..MaxStackSize

Counts == 0..MaxCount

\* One entry of items.manifest.json.
ItemEntries == [name : Names, stack_size : StackSizes]

ItemSources == SeqsUpTo(ItemEntries, MaxEntries)

\* Item sources that differ only in the names they define.
PlainItemSources ==
    SeqsUpTo([name : Names, stack_size : {MaxStackSize}], MaxEntries)

RawRecipeDatas ==
    [inputs : PartialMaps(Names, Counts), outputs : PartialMaps(Names, Counts),
     craft_time_ms : CraftTimesMs, work_required : {None, Some(TRUE), Some(FALSE)},
     energy : {None, Some(1)}]

\* Recipes that differ only in the names they refer to.
PlainRawRecipeDatas ==
    [inputs : PartialMaps(Names, {MaxCount}), outputs : PartialMaps(Names, {MaxCount}),
     craft_time_ms : {0}, work_required : {None}, energy : {None}]

\* The loads explored: any item file with no recipes, one recipe of any
\* content with at most one item, and any set of plain recipes with any
\* plain item file.
Loads ==
    (ItemSources \X {EmptyMap})
    \cup (SeqsUpTo([name : Names, stack_size : {MaxStackSize}], 1)
            \X UNION {[D -> RawRecipeDatas] : D \in {S \in SUBSET Names : Cardinality(S) = 1}})
    \cup (PlainItemSources \X PartialMaps(Names, PlainRawRecipeDatas))

----------------------------------------------------------------------------
(* The state machine.                                                      *)

Init ==
    \E load \in Loads :
        /\ itemSource = load[1]
        /\ rawRecipes = load[2]
        /\ rawItems = EmptyMap
        /\ itemState = "Unloaded"
        /\ recipeState = "RawParsed"
        /\ interner = EmptyInterner
        /\ itemManifest = ManifestNew
        /\ recipeManifest = ManifestNew

\* The loader deserializes items.manifest.json into a RawItemManifest.
LoadItems ==
    /\ itemState = "Unloaded"
    /\ rawItems' = DeserializeItems(itemSource)
    /\ itemState' = "RawParsed"
    /\ UNCHANGED <<itemSource, rawRecipes, recipeState, interner,
                   itemManifest, recipeManifest>>

\* RawItemManifest::process
ProcessItems ==
    /\ itemState = "RawParsed"
    /\ \E r \in ProcessItemsResults(interner, rawItems) :
          /\ interner' = r.interner
          /\ itemManifest' = r.manifest
    /\ itemState' = "Processed"
    /\ UNCHANGED <<itemSource, rawItems, rawRecipes, recipeState, recipeManifest>>

\* RawRecipeManifest::process
ProcessRecipes ==
    /\ recipeState = "RawParsed"
    /\ \E r \in ProcessRecipesResults(interner, rawRecipes) :
          /\ interner' = r.interner
          /\ recipeManifest' = r.manifest
    /\ recipeState' = "Processed"
    /\ UNCHANGED <<itemSource, rawItems, rawRecipes, itemState, itemManifest>>

Next ==
    \/ LoadItems
    \/ ProcessItems
    \/ ProcessRecipes

Spec == Init /\ [][Next]_vars

----------------------------------------------------------------------------
(* What the claims speak of.                                               *)

\* Id::<Item>::from_name(name), asked once the load has reached this state.
ItemId(name) == FromName(interner, "Item", name).id

\* Id::<Recipe>::from_name(name), asked once the load has reached this state.
RecipeId(name) == FromName(interner, "Recipe", name).id

BothProcessed == itemState = "Processed" /\ recipeState = "Processed"

\* The elements of a list.
Elems(list) == {list[i] : i \in DOMAIN list}

\* The names a raw recipe refers to.
Ingredients(raw) == DOMAIN raw.inputs \cup DOMAIN raw.outputs

\* The entries of the item file that define `name`.
Occurrences(name) == {i \in DOMAIN itemSource : itemSource[i].name = name}

\* The processed list holds exactly one pair per entry of the raw map, the
\* name resolved and the count as written, and no id twice.
ResolvedExactly(list, map) ==
    /\ Elems(list) = {[item_id |-> ItemId(n), count |-> map[n]] : n \in DOMAIN map}
    /\ Len(list) = Cardinality(DOMAIN map)
    /\ \A i, j \in DOMAIN list : i # j => list[i].item_id # list[j].item_id

----------------------------------------------------------------------------
(* C1: after RawItemManifest::process, get(Id<Item>::from_name(name)) is   *)
(* present with the stack_size of the raw entry, for every entry of the    *)
(* raw manifest, and the manifest has no entry under any other id.         *)
C1_ItemsRoundTrip ==
    itemState = "Processed" =>
        /\ \A name \in DOMAIN rawItems :
              ManifestGet(itemManifest, ItemId(name))
                  = Some([stack_size |-> rawItems[name].stack_size])
        /\ DOMAIN itemManifest = {ItemId(name) : name \in DOMAIN rawItems}

C1_Witness ==
    /\ itemState = "Processed"
    /\ \E n1, n2 \in DOMAIN rawItems :
          /\ n1 # n2
          /\ rawItems[n1].stack_size # rawItems[n2].stack_size
          /\ rawItems[n1].stack_size > 0

(* C2: the inputs of a processed recipe hold exactly one pair              *)
(* (Id<Item>::from_name(name), count) per entry of the raw inputs and no   *)
(* other pair, the counts unchanged and no id twice; likewise the outputs. *)
C2_RecipeListsResolved ==
    recipeState = "Processed" =>
        \A name \in DOMAIN rawRecipes :
            /\ RecipeId(name) \in DOMAIN recipeManifest
            /\ ResolvedExactly(recipeManifest[RecipeId(name)].inputs, rawRecipes[name].inputs)
            /\ ResolvedExactly(recipeManifest[RecipeId(name)].outputs, rawRecipes[name].outputs)

C2_Witness ==
    /\ recipeState = "Processed"
    /\ \E name \in DOMAIN rawRecipes :
          LET raw == rawRecipes[name]
          IN /\ Cardinality(DOMAIN raw.inputs) = 2
             /\ \E a, b \in DOMAIN raw.inputs : raw.inputs[a] # raw.inputs[b]
             /\ \E o \in DOMAIN raw.outputs : raw.outputs[o] = 0
             /\ Len(recipeManifest[RecipeId(name)].inputs) = 2

DanglingIn(list, map) ==
    \A n \in DOMAIN map \ DOMAIN rawItems :
        \E i \in DOMAIN list :
            /\ list[i].item_id = ItemId(n)
            /\ ManifestGet(itemManifest, list[i].item_id) = None

(* C3: once both manifests are processed, a recipe that names an item the  *)
(* item source does not define is in the recipe manifest, and the          *)
(* Id<Item> it holds for that name is absent from the item manifest.       *)
C3_DanglingReferenceAbsent ==
    BothProcessed =>
        \A name \in DOMAIN rawRecipes :
            /\ RecipeId(name) \in DOMAIN recipeManifest
            /\ DanglingIn(recipeManifest[RecipeId(name)].inputs, rawRecipes[name].inputs)
            /\ DanglingIn(recipeManifest[RecipeId(name)].outputs, rawRecipes[name].outputs)

C3_Witness ==
    /\ BothProcessed
    /\ rawItems # EmptyMap
    /\ \E name \in DOMAIN rawRecipes :
          /\ DOMAIN rawRecipes[name].inputs \ DOMAIN rawItems # {}
          /\ DOMAIN rawRecipes[name].outputs \ DOMAIN rawItems # {}
          /\ \E i \in DOMAIN recipeManifest[RecipeId(name)].inputs :
                ManifestGet(itemManifest, recipeManifest[RecipeId(name)].inputs[i].item_id) = None

(* C4: a name with two (or more) entries in the item file has exactly one  *)
(* entry in the processed manifest, with the data of the last of them.     *)
C4_DuplicateLastWins ==
    itemState = "Processed" =>
        \A name \in Names :
            Cardinality(Occurrences(name)) >= 2 =>
                LET last == CHOOSE i \in Occurrences(name) :
                                \A j \in Occurrences(name) : j <= i
                    ids == {t[2] : t \in {u \in interner.issued : u[1] = name}}
                IN /\ Cardinality(ids \cap DOMAIN itemManifest) = 1
                   /\ \A id \in ids \cap DOMAIN itemManifest :
                         itemManifest[id] = [stack_size |-> itemSource[last].stack_size]
                   /\ Cardinality(DOMAIN itemManifest)
                         = Cardinality({itemSource[i].name : i \in DOMAIN itemSource})

C4_Witness ==
    /\ itemState = "Processed"
    /\ \E i, j \in DOMAIN itemSource :
          /\ i < j
          /\ itemSource[i].name = itemSource[j].name
          /\ itemSource[i].stack_size # itemSource[j].stack_size
          /\ itemManifest[ItemId(itemSource[j].name)].stack_size = itemSource[j].stack_size

(* C5: in every reachable state, two different names of one category have  *)
(* different ids: in the interner's table, and among the ids handed out    *)
(* for item names, recipe names and recipe input/output keys.              *)
C5_DistinctNamesDistinctIds ==
    /\ \A c \in Categories :
          \A n1, n2 \in DOMAIN interner.name_to_handle[c] :
              n1 # n2 => interner.name_to_handle[c][n1] # interner.name_to_handle[c][n2]
    /\ \A t1, t2 \in interner.issued :
          (t1[2].category = t2[2].category /\ t1[1] # t2[1]) => t1[2] # t2[2]

C5_Witness ==
    /\ BothProcessed
    /\ Cardinality(DOMAIN interner.name_to_handle["Item"]) = 2
    /\ Cardinality(DOMAIN interner.name_to_handle["Recipe"]) = 2
    /\ \E name \in DOMAIN rawRecipes : Ingredients(rawRecipes[name]) \ DOMAIN rawItems # {}

HandlesStable ==
    \A c \in Categories :
        \A n \in DOMAIN interner.name_to_handle[c] :
            /\ n \in DOMAIN interner'.name_to_handle[c]
            /\ interner'.name_to_handle[c][n] = interner.name_to_handle[c][n]
            /\ \A m \in DOMAIN interner'.name_to_handle[c] :
                  interner'.name_to_handle[c][m] = interner.name_to_handle[c][n] => m = n

OneIdPerName ==
    /\ \A t1, t2 \in interner.issued :
          (t1[1] = t2[1] /\ t1[2].category = t2[2].category) => t1[2] = t2[2]
    /\ \A t \in interner.issued :
          /\ t[1] \in DOMAIN interner.name_to_handle[t[2].category]
          /\ t[2].handle = interner.name_to_handle[t[2].category][t[1]]

(* C6: a name keeps the handle it was first given: every id handed out for *)
(* it, by a manifest insert or by the resolution of a recipe's inputs and  *)
(* outputs, is the same, and no step removes a name from the interner or   *)
(* gives its handle to another name.                                       *)
C6_FromNameStable ==
    [](OneIdPerName) /\ [][HandlesStable /\ interner.issued \subseteq interner'.issued]_vars

C6_Witness ==
    /\ BothProcessed
    /\ \E name \in DOMAIN rawRecipes :
       \E n \in DOMAIN rawItems :
          /\ n \in DOMAIN rawRecipes[name].inputs
          /\ n \in DOMAIN rawRecipes[name].outputs
          /\ \E i \in DOMAIN recipeManifest[RecipeId(name)].inputs :
             \E o \in DOMAIN recipeManifest[RecipeId(name)].outputs :
                /\ recipeManifest[RecipeId(name)].inputs[i].item_id = ItemId(n)
                /\ recipeManifest[RecipeId(name)].outputs[o].item_id = ItemId(n)
                /\ ItemId(n) \in DOMAIN itemManifest

IsItemCountList(list) ==
    \A i \in DOMAIN list :
        /\ list[i].item_id.category = "Item"
        /\ list[i].item_id.handle \in Nat
        /\ list[i].count \in Nat

(* C7: process() is total: whatever the deserialized manifests are (empty, *)
(* any stack_size, count or craft_time_ms, optional fields absent, names   *)
(* defined nowhere), process() can run, and what it returns is a manifest  *)
(* with an entry of the processed data type for every raw entry.           *)
C7_ProcessTotal ==
    /\ itemState = "RawParsed" => ProcessItemsResults(interner, rawItems) # {}
    /\ recipeState = "RawParsed" => ProcessRecipesResults(interner, rawRecipes) # {}
    /\ itemState = "Processed" =>
          /\ Cardinality(DOMAIN itemManifest) = Cardinality(DOMAIN rawItems)
          /\ \A id \in DOMAIN itemManifest : itemManifest[id].stack_size \in Nat
    /\ recipeState = "Processed" =>
          /\ Cardinality(DOMAIN recipeManifest) = Cardinality(DOMAIN rawRecipes)
          /\ \A id \in DOMAIN recipeManifest :
                /\ recipeManifest[id].work_required \in BOOLEAN
                /\ IsItemCountList(recipeManifest[id].inputs)
                /\ IsItemCountList(recipeManifest[id].outputs)

C7_Witness ==
    /\ recipeState = "Processed"
    /\ itemState = "RawParsed"
    /\ rawItems = EmptyMap
    /\ \E name \in DOMAIN rawRecipes :
          /\ rawRecipes[name].work_required = None
          /\ rawRecipes[name].energy = None
          /\ DOMAIN rawRecipes[name].inputs # {}
          /\ \E n \in DOMAIN rawRecipes[name].outputs : rawRecipes[name].outputs[n] = 0

(* C8: the two categories are separate namespaces: the item manifest is    *)
(* keyed by Id<Item> only and the recipe manifest by Id<Recipe> only, a    *)
(* recipe's inputs and outputs hold Id<Item> only, an Id<Recipe> finds     *)
(* nothing in the item manifest even when its handle is that of an item,   *)
(* and an item and a recipe of one name are both stored, each in its own   *)
(* manifest.                                                               *)
C8_CategoriesSeparate ==
    /\ \A id \in DOMAIN itemManifest : id.category = "Item"
    /\ \A id \in DOMAIN recipeManifest :
          /\ id.category = "Recipe"
          /\ ManifestGet(itemManifest, id) = None
          /\ \A ic \in Elems(recipeManifest[id].inputs) \cup Elems(recipeManifest[id].outputs) :
                ic.item_id.category = "Item"
    /\ \A id \in DOMAIN itemManifest : ManifestGet(recipeManifest, id) = None
    /\ BothProcessed =>
          \A n \in DOMAIN rawItems \cap DOMAIN rawRecipes :
              /\ ManifestGet(itemManifest, ItemId(n))
                    = Some([stack_size |-> rawItems[n].stack_size])
              /\ ManifestGet(recipeManifest, RecipeId(n)) # None
              /\ "inputs" \in DOMAIN recipeManifest[RecipeId(n)]

C8_Witness ==
    /\ BothProcessed
    /\ \E n \in DOMAIN rawItems \cap DOMAIN rawRecipes :
          /\ ItemId(n).handle = RecipeId(n).handle
          /\ ItemId(n) # RecipeId(n)
          /\ ItemId(n) \in DOMAIN itemManifest
          /\ RecipeId(n) \in DOMAIN recipeManifest

(* C9: work_required of a processed recipe is false when the raw field is  *)
(* absent and the raw value when it is present.                            *)
C9_WorkRequiredDefault ==
    recipeState = "Processed" =>
        \A name \in DOMAIN rawRecipes :
            /\ RecipeId(name) \in DOMAIN recipeManifest
            /\ rawRecipes[name].work_required = None =>
                  recipeManifest[RecipeId(name)].work_required = FALSE
            /\ \A b \in BOOLEAN :
                  rawRecipes[name].work_required = Some(b) =>
                      recipeManifest[RecipeId(name)].work_required = b

C9_Witness ==
    /\ recipeState = "Processed"
    /\ \E name \in DOMAIN rawRecipes :
          /\ rawRecipes[name].work_required = None
          /\ recipeManifest[RecipeId(name)].work_required = FALSE

DefinedIn(list, map) ==
    \A n \in DOMAIN map \cap DOMAIN rawItems :
        \E i \in DOMAIN list :
            /\ list[i].item_id = ItemId(n)
            /\ list[i].item_id \in DOMAIN itemManifest
            /\ ManifestGet(itemManifest, list[i].item_id)
                  = Some([stack_size |-> rawItems[n].stack_size])

(* C10: in whichever order the two process() calls ran, once both are done *)
(* every recipe input or output that names an item of the item source      *)
(* holds the Id<Item> under which the item manifest stores that item, and  *)
(* get on it answers the item's data.                                      *)
C10_DefinedItemsResolveInAnyOrder ==
    BothProcessed =>
        \A name \in DOMAIN rawRecipes :
            /\ RecipeId(name) \in DOMAIN recipeManifest
            /\ DefinedIn(recipeManifest[RecipeId(name)].inputs, rawRecipes[name].inputs)
            /\ DefinedIn(recipeManifest[RecipeId(name)].outputs, rawRecipes[name].outputs)

\* Recipes were processed before items: the one item defined was interned
\* after a name that only a recipe mentions.
C10_Witness ==
    /\ BothProcessed
    /\ \E n \in DOMAIN rawItems :
          /\ DOMAIN rawItems = {n}
          /\ ItemId(n).handle = 1
          /\ \E name \in DOMAIN rawRecipes :
                /\ n \in DOMAIN rawRecipes[name].inputs
                /\ \E i \in DOMAIN recipeManifest[RecipeId(name)].inputs :
                      recipeManifest[RecipeId(name)].inputs[i].item_id = ItemId(n)

====
